---- MODULE Spec2Model ----
(***************************************************************************)
(* A model of ga.cpp: a genetic algorithm for the travelling salesman      *)
(* problem.  Map (random distinct cities), Tour (itinerary + cached        *)
(* length), Tour::mutate, sex (the crossover), Population::findParent and  *)
(* Population::evolve.                                                     *)
(*                                                                         *)
(* Conventions.  City ids and positions are 0-based as in the code; a TLA+ *)
(* sequence s holds the code's s[k] at s[k+1] (see At).  A double is       *)
(* modelled in fixed point, in units of 1/1000, and sqrt truncates to that *)
(* unit: sums and comparisons of lengths are then integer operations.      *)
(* rand() is a nondeterministic draw.  status = "ub" stands for whatever   *)
(* follows an operation the language leaves undefined (a read past the end *)
(* of a vector, a remainder by zero): a crash or a run on garbage.         *)
(***************************************************************************)
EXTENDS Integers, Sequences, FiniteSets, TLC

VARIABLES
    mc,      \* the Map under construction: [w, h, n, cities, pc]
    map,     \* Population::map (also the Map a lone Tour or a crossover is based on)
    tours,   \* Population::tours
    tour,    \* a Tour object outside any Population, or NoTour
    call,    \* the last call made: its name, what it was given and what it returned
    ev,      \* the position of a running Population::evolve call and its locals
    sx,      \* the position of a running sex call and its locals
    status   \* how the last operation ended: "ok", "error" (reported) or "ub"

vars == <<mc, map, tours, tour, call, ev, sx, status>>

(***************************************************************************)
(* Bounds of the model.                                                    *)
(***************************************************************************)
NTours == 2         \* populations hold 1..NTours tours
RandMax == 3        \* rand() returns 0..RandMax
MaxKindDraws == 2   \* mutation kinds drawn by one mutate call
MaxWidth == 2       \* widths tried by the Map constructor
MaxHeight == 2      \* heights tried by the Map constructor
MaxMapN == 5        \* city counts asked of the Map constructor

(***************************************************************************)
(* Sequences and permutations.                                             *)
(***************************************************************************)
Range(s) == {s[k] : k \in DOMAIN s}

At(s, k) == IF k < Len(s) THEN s[k + 1] ELSE -1   \* s[k]; past the end: a garbage value

Back(s) == s[Len(s)]

Perms(n) == {f \in [1..n -> 1..n] : \A x, y \in 1..n : f[x] = f[y] => x = y}

\* random_shuffle: the sequence put in the order f
Shuffle(s, f) == [k \in 1..Len(s) |-> s[f[k]]]

IsItinerary(it, n) ==
    /\ Len(it) = n
    /\ Range(it) = 0..(n - 1)
    /\ it[1] = 0

(***************************************************************************)
(* Maps the tours are checked on: the unit square of the specification's   *)
(* scenario, a triangle, a quadrilateral without symmetry, and five cities *)
(* (the least number for which a rotation is feasible).                    *)
(***************************************************************************)
Triangle == << <<0, 0>>, <<1, 0>>, <<0, 1>> >>

Square == << <<0, 0>>, <<1, 0>>, <<1, 1>>, <<0, 1>> >>

Skew == << <<0, 0>>, <<2, 0>>, <<2, 1>>, <<0, 2>> >>

Five == << <<0, 0>>, <<2, 0>>, <<1, 1>>, <<2, 2>>, <<0, 2>> >>

\* maps too small for a mutation
One == << <<0, 0>> >>

Two == << <<0, 0>>, <<1, 0>> >>

PopMaps == {Triangle, Square, Skew}

SmallMaps == {One, Two}

TourMaps == PopMaps \cup {Five}

(***************************************************************************)
(* Distances.                                                              *)
(***************************************************************************)
RECURSIVE ISqrtBetween(_, _, _)
ISqrtBetween(k, lo, hi) ==
    IF hi - lo <= 1 THEN lo
    ELSE LET mid == (lo + hi) \div 2
         IN  IF mid * mid <= k THEN ISqrtBetween(k, mid, hi)
             ELSE ISqrtBetween(k, lo, mid)

\* sqrt(k) in units of 1/1000, truncated
Sqrt(k) == ISqrtBetween(k * 1000000, 0, 46341)

\* (a.x - b.x) * (a.x - b.x) + (a.y - b.y) * (a.y - b.y): the unsigned
\* difference wraps modulo 2^32 and its square is the true square again.
SquaredDistance(a, b) ==
    (a[1] - b[1]) * (a[1] - b[1]) + (a[2] - b[2]) * (a[2] - b[2])

SqrtTable ==
    LET cs == UNION {Range(m) : m \in TourMaps}
    IN  [k \in {SquaredDistance(a, b) : a \in cs, b \in cs} |-> Sqrt(k)]

distanceBetweenCities(a, b) == SqrtTable[SquaredDistance(a, b)]

\* Map::distance(i, j)
distance(m, i, j) == distanceBetweenCities(m[i + 1], m[j + 1])

RECURSIVE SumAdjacent(_, _, _)
SumAdjacent(it, m, i) ==
    IF i >= Len(it) THEN 0
    ELSE distance(m, At(it, i - 1), At(it, i)) + SumAdjacent(it, m, i + 1)

lengthOfItinerary(it, m) ==
    distance(m, At(it, 0), Back(it)) + SumAdjacent(it, m, 1)

(***************************************************************************)
(* Tour.                                                                   *)
(***************************************************************************)
NoTour == [it |-> <<>>, len |-> 0]

\* Tour(itinerary, map)
TourOf(it, m) == [it |-> it, len |-> lengthOfItinerary(it, m)]

\* Tour(map): 0, 1, ..., n-1 with all but the first element shuffled by f
RandomTour(m, f) ==
    TourOf([k \in 1..Len(m) |-> IF k = 1 THEN 0 ELSE f[k - 1]], m)

RandomTours(m) == {RandomTour(m, f) : f \in Perms(Len(m) - 1)}

\* randomDouble(0, 1) for the draw r of rand(), as a fraction
randomDouble(r) == <<r, RandMax>>

GreaterThan(x, y) == x[1] * y[2] > y[1] * x[2]

\* the values randomIndex(a, b) returns when a < b
randomIndex(a, b) == a..(b - 1)

\* the probabilities p_mutate tried, as fractions
Probabilities == {<<0, 1>>, <<1, 2>>, <<1, 1>>}

SwapAt(it, i, j) ==
    [k \in 1..Len(it) |->
        IF k = i + 1 THEN it[j + 1] ELSE IF k = j + 1 THEN it[i + 1] ELSE it[k]]

\* reverse(begin() + i, begin() + j + 1)
ReverseRange(it, i, j) ==
    [k \in 1..Len(it) |->
        IF i + 1 <= k /\ k <= j + 1 THEN it[(i + 1) + (j + 1) - k] ELSE it[k]]

\* rotate(begin() + i, begin() + piv, begin() + j + 1): it[piv] comes first
RotateRange(it, i, piv, j) ==
    [k \in 1..Len(it) |->
        IF i + 1 <= k /\ k <= j + 1
        THEN LET off == (k - (i + 1)) + (piv - i)
                 len == j - i + 1
             IN  it[(i + 1) + (off % len)]
        ELSE it[k]]

\* the loop of Tour::mutate over the kinds drawn, ks
RECURSIVE MutateLoop(_, _, _, _, _)
MutateLoop(it, i, j, ks, piv) ==
    LET mutation == Head(ks)
    IN  CASE mutation = 0 -> [it |-> SwapAt(it, i, j), mutation |-> 0]
          [] mutation = 1 -> [it |-> ReverseRange(it, i, j), mutation |-> 1]
          [] mutation = 2 ->
                IF j - i > 2
                THEN [it |-> RotateRange(it, i, piv, j), mutation |-> 2]
                ELSE MutateLoop(it, i, j, Tail(ks), piv)

\* mutation = rand() % 3, drawn up to MaxKindDraws times
KindSequences == UNION {[1..l -> 0..2] : l \in 1..MaxKindDraws}

\* the kinds one mutate call can draw: the loop ends at the first feasible one
KindDraws(i, j) ==
    LET feasible(k) == k # 2 \/ j - i > 2
    IN  {ks \in KindSequences :
            /\ feasible(ks[Len(ks)])
            /\ \A k \in 1..(Len(ks) - 1) : ~feasible(ks[k])}

\* draws whose first index can be 0, the fixed start
MutateDrawsFromZero(n) ==
    UNION {UNION {
        {[r |-> r, i |-> i, j |-> j, ks |-> ks, piv |-> piv] :
            r \in 0..RandMax,
            ks \in KindDraws(i, j),
            piv \in IF j - i > 2 THEN randomIndex(i + 1, j) ELSE {i + 1}}
        : j \in randomIndex(i + 1, n)} : i \in randomIndex(0, n - 1)}

\* the draws of one mutate call on a tour of n >= 3 cities
MutateDraws(n) ==
    UNION {UNION {
        {[r |-> r, i |-> i, j |-> j, ks |-> ks, piv |-> piv] :
            r \in 0..RandMax,
            ks \in KindDraws(i, j),
            piv \in IF j - i > 2 THEN randomIndex(i + 1, j) ELSE {i + 1}}
        : j \in randomIndex(i + 1, n)} : i \in randomIndex(1, n - 1)}

\* a mutate that leaves the cached length as it was
mutateStale(t, p, m, d) ==
    IF GreaterThan(randomDouble(d.r), p)
    THEN [tour |-> t, ret |-> -1]
    ELSE LET res == MutateLoop(t.it, d.i, d.j, d.ks, d.piv)
         IN  [tour |-> [it |-> res.it, len |-> t.len], ret |-> res.mutation]

\* Tour::mutate(p, map) with the draws d: the tour after the call and the value returned
mutate(t, p, m, d) ==
    IF GreaterThan(randomDouble(d.r), p)
    THEN [tour |-> t, ret |-> -1]
    ELSE LET res == MutateLoop(t.it, d.i, d.j, d.ks, d.piv)
         IN  [tour |-> [it |-> res.it, len |-> lengthOfItinerary(res.it, m)],
              ret |-> res.mutation]

(***************************************************************************)
(* sex: the crossover.                                                     *)
(***************************************************************************)
\* a scan that does not skip the cities already in the itinerary
SkipNothing(t, it, i) == i

\* while (find(itinerary.begin(), itinerary.end(), t[i]) != itinerary.end()) i ++;
\* stopping at i = t.size() is one outcome of reading t[t.size()]
RECURSIVE SkipUsed(_, _, _)
SkipUsed(t, it, i) ==
    IF i < Len(t) /\ At(t, i) \in Range(it) THEN SkipUsed(t, it, i + 1) ELSE i

\* a pass that advances both cursors whenever it appends b's candidate
SexStepAdvancesBoth(a, b, m, st) ==
    LET i == SkipUsed(a.it, st.it, st.i)
        j == SkipUsed(b.it, st.it, st.j)
        oob == st.oob \/ i >= Len(a.it) \/ j >= Len(b.it)
    IN  IF i = Len(a.it)
        THEN [i |-> i, j |-> j + 1, it |-> Append(st.it, At(b.it, j)),
              branch |-> "a_exhausted", oob |-> oob]
        ELSE IF j = Len(b.it)
        THEN [i |-> i + 1, j |-> j, it |-> Append(st.it, At(a.it, i)),
              branch |-> "b_exhausted", oob |-> oob]
        ELSE IF distance(m, Back(st.it), At(a.it, i)) < distance(m, Back(st.it), At(b.it, j))
        THEN [i |-> i + 1, j |-> j, it |-> Append(st.it, At(a.it, i)),
              branch |-> "a_closer", oob |-> oob]
        ELSE [i |-> i + 1, j |-> j + 1, it |-> Append(st.it, At(b.it, j)),
              branch |-> "b_no_worse", oob |-> oob]

\* a pass that compares with <= : a tie goes to a's candidate
SexStepTieToA(a, b, m, st) ==
    LET i == SkipUsed(a.it, st.it, st.i)
        j == SkipUsed(b.it, st.it, st.j)
    IN  IF distance(m, Back(st.it), At(a.it, i)) <= distance(m, Back(st.it), At(b.it, j))
        THEN [i |-> i + 1, j |-> j, it |-> Append(st.it, At(a.it, i)),
              branch |-> "a_closer", oob |-> FALSE]
        ELSE [i |-> i, j |-> j + 1, it |-> Append(st.it, At(b.it, j)),
              branch |-> "b_no_worse", oob |-> FALSE]

\* one pass of the outer loop of sex, from the locals st = [i, j, it, ...]
SexStep(a, b, m, st) ==
    LET i == SkipUsed(a.it, st.it, st.i)
        j == SkipUsed(b.it, st.it, st.j)
        oob == st.oob \/ i >= Len(a.it) \/ j >= Len(b.it)
    IN  IF i = Len(a.it)
        THEN [i |-> i, j |-> j + 1, it |-> Append(st.it, At(b.it, j)),
              branch |-> "a_exhausted", oob |-> oob]
        ELSE IF j = Len(b.it)
        THEN [i |-> i + 1, j |-> j, it |-> Append(st.it, At(a.it, i)),
              branch |-> "b_exhausted", oob |-> oob]
        ELSE IF distance(m, Back(st.it), At(a.it, i)) < distance(m, Back(st.it), At(b.it, j))
        THEN [i |-> i + 1, j |-> j, it |-> Append(st.it, At(a.it, i)),
              branch |-> "a_closer", oob |-> oob]
        ELSE [i |-> i, j |-> j + 1, it |-> Append(st.it, At(b.it, j)),
              branch |-> "b_no_worse", oob |-> oob]

\* a search of a that starts one position late
SexStartLate == [i |-> 2, j |-> 1, it |-> <<0>>, branch |-> "none", oob |-> FALSE]

SexStart == [i |-> 1, j |-> 1, it |-> <<0>>, branch |-> "none", oob |-> FALSE]

RECURSIVE SexLoop(_, _, _, _)
SexLoop(a, b, m, st) ==
    IF Len(st.it) < Len(m) THEN SexLoop(a, b, m, SexStep(a, b, m, st)) ELSE st

\* sex(a, b, map): the child, and whether a read past the end of a parent happened
sex(a, b, m) ==
    LET st == SexLoop(a, b, m, SexStart)
    IN  [tour |-> TourOf(st.it, m), oob |-> st.oob]

(***************************************************************************)
(* Population.                                                             *)
(***************************************************************************)
\* operator <(const Tour &, const Tour &)
LessTour(a, b) == a.len > b.len

\* max_element over ts[first..last): the loop from position k with the largest so far
RECURSIVE MaxElementFrom(_, _, _, _)
MaxElementFrom(ts, largest, k, last) ==
    IF k >= last THEN largest
    ELSE IF LessTour(At(ts, largest), At(ts, k))
         THEN MaxElementFrom(ts, k, k + 1, last)
         ELSE MaxElementFrom(ts, largest, k + 1, last)

\* max_element(begin, begin + last): the position found (last = 0: begin itself)
MaxElement(ts, last) == IF last = 0 THEN 0 ELSE MaxElementFrom(ts, 0, 1, last)

\* Population::fittest()
fittest(ts) == At(ts, MaxElement(ts, Len(ts)))

\* Population::findParent(depth) with the shuffle f: the collection after the
\* shuffle and the slot the returned reference names
findParent(ts, depth, f) ==
    LET shuffled == Shuffle(ts, f)
    IN  [tours |-> shuffled, ref |-> MaxElement(shuffled, depth)]

\* lines 354-361: the tour added for the parents a and b
Child(a, b, m) ==
    IF a.it # b.it
    THEN LET c == sex(a, b, m) IN [child |-> c.tour, oob |-> c.oob]
    ELSE [child |-> a, oob |-> FALSE]

\* one pass of the loop of evolve (lines 352-361) with the shuffles f1, f2:
\* a and b are references into tours, read after the second shuffle
Breed(ts, depth, m, f1, f2) ==
    LET pa == findParent(ts, depth, f1)
        pb == findParent(pa.tours, depth, f2)
    IN  Child(At(pb.tours, pa.ref), At(pb.tours, pb.ref), m)

\* the children one pass of the loop can add.  Every pass shuffles the whole
\* collection anew, so the set is the same whatever order earlier passes left.
Offspring(ts, depth, m) ==
    LET ps == Perms(Len(ts))
    IN  {Breed(ts, depth, m, f1, f2) : f1 \in ps, f2 \in ps}

\* what children[i].mutate(p_mutate, map) can make of the tour c
MutationsOf(c, p, m) == {mutate(c, p, m, d).tour : d \in MutateDraws(Len(m))}

\* the children cs of the loop after the mutations of lines 366-369
MutatedOffspring(cs, p, m) == UNION {MutationsOf(c.child, p, m) : c \in cs}

\* an evolve that does not keep the fittest tour
EvolveResultsNoElite(ts, ms) == [1..Len(ts) -> ms]

\* the collections evolve can assign to tours: the fittest tour, then the
\* mutated children ms in any choice
EvolveResults(ts, ms) ==
    {<<fittest(ts)>> \o rest : rest \in [1..(Len(ts) - 1) -> ms]}

Idle == [pc |-> "idle"]

NoCall == [op |-> "none"]

(***************************************************************************)
(* The program holding a Population, or a Tour of its own.                 *)
(***************************************************************************)
\* Population(width, height, n_cities, n_tours) over one of the maps
InitPopulation ==
    /\ map \in PopMaps
    /\ \E n \in 1..NTours : tours \in [1..n -> RandomTours(map)]
    /\ tour = NoTour

\* Tour(map)
InitTour ==
    /\ map \in TourMaps
    /\ tours = <<>>
    /\ tour \in RandomTours(map)

InitRest ==
    /\ call = NoCall
    /\ mc = Idle
    /\ ev = Idle
    /\ sx = Idle
    /\ status = "ok"

Init == (InitPopulation \/ InitTour) /\ InitRest

\* population.evolve(p_mutate, depth) as one step, for a depth among depths.
\* max_element(tours.begin(), tours.begin() + depth) with depth > tours.size()
\* reads past the end of tours; no test of depth comes before it.
EvolveWith(depths) ==
    /\ tours # <<>>
    /\ ev.pc = "idle"
    /\ \E depth \in depths :
        /\ call' = [op |-> "evolve", valid |-> depth \in 1..Len(tours),
                    size |-> Len(tours), best |-> fittest(tours).len]
        /\ IF Len(tours) = 1
           THEN status' = "ok" /\ tours' = <<fittest(tours)>>
           ELSE IF depth > Len(tours)
           THEN status' = "ub" /\ UNCHANGED tours
           ELSE \E cs \in {Offspring(tours, depth, map)} :
                    IF \E c \in cs : c.oob
                    THEN status' = "ub" /\ UNCHANGED tours
                    ELSE /\ status' = "ok"
                         /\ \E p \in Probabilities :
                            \E ms \in {MutatedOffspring(cs, p, map)} :
                                tours' \in EvolveResults(tours, ms)
    /\ UNCHANGED <<mc, map, tour, ev, sx>>

Evolve == EvolveWith(1..Len(tours))

\* tour = Tour(map)
NewTour ==
    /\ tour # NoTour
    /\ tour' \in RandomTours(map)
    /\ call' = [op |-> "Tour"]
    /\ status' = "ok"
    /\ UNCHANGED <<mc, map, tours, ev, sx>>

\* tour.mutate(p, map).  With fewer than 3 cities the index draws are
\* randomIndex(1, 1), a remainder by zero, or randomIndex(1, 0), whose range
\* wraps around and indexes past the itinerary: nothing tests size() first.
MutateTour ==
    /\ tour # NoTour
    /\ \E p \in Probabilities, r \in 0..RandMax :
        IF Len(map) >= 3
        THEN \E d \in {x \in MutateDraws(Len(map)) : x.r = r} :
                LET res == mutate(tour, p, map, d)
                IN  /\ tour' = res.tour
                    /\ call' = [op |-> "mutate", p |-> p, ret |-> res.ret]
                    /\ status' = "ok"
        ELSE IF GreaterThan(randomDouble(r), p)
        THEN /\ call' = [op |-> "mutate", p |-> p, ret |-> -1]
             /\ status' = "ok"
             /\ UNCHANGED tour
        ELSE /\ call' = [op |-> "mutate", p |-> p]
             /\ status' = "ub"
             /\ UNCHANGED tour
    /\ UNCHANGED <<mc, map, tours, ev, sx>>

Next == Evolve \/ NewTour \/ MutateTour

Spec == Init /\ [][Next]_vars

(***************************************************************************)
(* sex(a, b, map) run pass by pass on two parents drawn at random.         *)
(***************************************************************************)
InitSex ==
    /\ map \in TourMaps
    /\ \E a \in RandomTours(map), b \in RandomTours(map) :
            sx = [pc |-> "loop", a |-> a, b |-> b, st |-> SexStart]
    /\ tours = <<>>
    /\ tour = NoTour
    /\ call = NoCall
    /\ mc = Idle
    /\ ev = Idle
    /\ status = "ok"

\* one pass of while (itinerary.size() < map.size()).  A pass that read past
\* the end of a parent either goes on with the value read or ends the program.
SexPass ==
    /\ sx.pc = "loop"
    /\ Len(sx.st.it) < Len(map)
    /\ LET st == SexStep(sx.a, sx.b, map, sx.st)
       IN  IF st.oob
           THEN /\ sx' \in {[sx EXCEPT !.st = st], [sx EXCEPT !.pc = "ub"]}
                /\ status' = "ub"
           ELSE sx' = [sx EXCEPT !.st = st] /\ UNCHANGED status
    /\ UNCHANGED <<mc, map, tours, tour, call, ev>>

\* return Tour(itinerary, map)
SexReturn ==
    /\ sx.pc = "loop"
    /\ Len(sx.st.it) >= Len(map)
    /\ sx' = [sx EXCEPT !.pc = "done"]
    /\ tour' = TourOf(sx.st.it, map)
    /\ call' = [op |-> "sex"]
    /\ UNCHANGED <<mc, map, tours, ev, status>>

NextSex == SexPass \/ SexReturn

SpecSex == InitSex /\ [][NextSex]_vars

\* the loop body runs whenever it can
SpecSexFair == SpecSex /\ WF_vars(NextSex)

(***************************************************************************)
(* Population::evolve run statement by statement.                          *)
(***************************************************************************)
InitSelect == InitPopulation /\ InitRest

\* vector<Tour> children; children.push_back(fittest());
EvolveBegin ==
    /\ ev.pc = "idle"
    /\ \E p \in Probabilities, depth \in 1..Len(tours) :
        /\ ev' = [pc |-> "loop", p |-> p, depth |-> depth,
                  children |-> <<fittest(tours)>>, a |-> 0, b |-> 0, first |-> NoTour]
        /\ call' = [op |-> "evolve", valid |-> depth \in 1..Len(tours),
                    size |-> Len(tours), best |-> fittest(tours).len]
    /\ UNCHANGED <<mc, map, tours, tour, sx, status>>

\* Tour &a = findParent(depth); first is the tour a names when the call returns
EvolveFindA ==
    /\ ev.pc = "loop"
    /\ Len(ev.children) < Len(tours)
    /\ \E f \in Perms(Len(tours)) :
        LET r == findParent(tours, ev.depth, f)
        IN  /\ tours' = r.tours
            /\ ev' = [ev EXCEPT !.pc = "a", !.a = r.ref, !.first = At(r.tours, r.ref)]
    /\ UNCHANGED <<mc, map, tour, call, sx, status>>

\* Tour &b = findParent(depth);
EvolveFindB ==
    /\ ev.pc = "a"
    /\ \E f \in Perms(Len(tours)) :
        LET r == findParent(tours, ev.depth, f)
        IN  /\ tours' = r.tours
            /\ ev' = [ev EXCEPT !.pc = "b", !.b = r.ref]
    /\ UNCHANGED <<mc, map, tour, call, sx, status>>

\* if (a != b) children.push_back(sex(a, b, map)); else children.push_back(a);
EvolveAdd ==
    /\ ev.pc = "b"
    /\ LET c == Child(At(tours, ev.a), At(tours, ev.b), map)
       IN  /\ ev' = [ev EXCEPT !.pc = "loop", !.children = Append(@, c.child)]
           /\ status' = IF c.oob THEN "ub" ELSE status
    /\ UNCHANGED <<mc, map, tours, tour, call, sx>>

\* the mutations of children[1..] and tours = children
EvolveFinish ==
    /\ ev.pc = "loop"
    /\ Len(ev.children) >= Len(tours)
    /\ tours' \in
        {cs \in [1..Len(ev.children) ->
                    UNION {MutationsOf(c, ev.p, map) : c \in Range(ev.children)}] :
            /\ cs[1] = ev.children[1]
            /\ \A k \in 2..Len(cs) : cs[k] \in MutationsOf(ev.children[k], ev.p, map)}
    /\ ev' = Idle
    /\ UNCHANGED <<mc, map, tour, call, sx, status>>

NextSelect == EvolveBegin \/ EvolveFindA \/ EvolveFindB \/ EvolveAdd \/ EvolveFinish

SpecSelect == InitSelect /\ [][NextSelect]_vars

(***************************************************************************)
(* The operators called with arguments outside their contract.             *)
(***************************************************************************)
InitSmallTour ==
    /\ map \in SmallMaps
    /\ tours = <<>>
    /\ tour \in RandomTours(map)

InitArgs == (InitPopulation \/ InitSmallTour) /\ InitRest

\* population.evolve(p_mutate, depth) for any depth
EvolveAnyDepth == EvolveWith(0..(Len(tours) + 1))

NextArgs == EvolveAnyDepth \/ MutateTour

SpecArgs == InitArgs /\ [][NextArgs]_vars

(***************************************************************************)
(* Map(w, h, n).                                                           *)
(***************************************************************************)
InitMap ==
    /\ \E w \in 1..MaxWidth, h \in 1..MaxHeight, n \in 1..MaxMapN :
            mc = [pc |-> "loop", w |-> w, h |-> h, n |-> n, cities |-> <<>>]
    /\ map = <<>>
    /\ tours = <<>>
    /\ tour = NoTour
    /\ call = NoCall
    /\ ev = Idle
    /\ sx = Idle
    /\ status = "ok"

\* one pass of while (size() < n): City city(_width, _height) and the test
MapDraw ==
    /\ mc.pc = "loop"
    /\ Len(mc.cities) < mc.n
    /\ \E x \in 0..(mc.w - 1), y \in 0..(mc.h - 1) :
        IF <<x, y>> \notin Range(mc.cities)
        THEN mc' = [mc EXCEPT !.cities = Append(@, <<x, y>>)]
        ELSE UNCHANGED mc
    /\ UNCHANGED <<map, tours, tour, call, ev, sx, status>>

\* the loop ends: the Map is constructed
MapReturn ==
    /\ mc.pc = "loop"
    /\ Len(mc.cities) >= mc.n
    /\ mc' = [mc EXCEPT !.pc = "done"]
    /\ map' = mc.cities
    /\ UNCHANGED <<tours, tour, call, ev, sx, status>>

NextMap == MapDraw \/ MapReturn

SpecMap == InitMap /\ [][NextMap]_vars

(***************************************************************************)
(* Claims about sex.                                                       *)
(***************************************************************************)
\* the first city of the parent itinerary t that is not in the itinerary it
FirstUnused(t, it) ==
    t[CHOOSE k \in 1..Len(t) :
        /\ t[k] \notin Range(it)
        /\ \A l \in 1..(k - 1) : t[l] \in Range(it)]

\* a pass of the loop has appended Back(sx.st.it) to the itinerary before it
PassDone == sx.pc \in {"loop", "done"} /\ Len(sx.st.it) >= 2

BeforePass == SubSeq(sx.st.it, 1, Len(sx.st.it) - 1)

CandidateA == FirstUnused(sx.a.it, BeforePass)

CandidateB == FirstUnused(sx.b.it, BeforePass)

DistA == distance(map, Back(BeforePass), CandidateA)

DistB == distance(map, Back(BeforePass), CandidateB)

\* C5 as amended: the city a pass appends is the first unused city of a or
\* of b, it is at least as close to the last-added city as the other
\* candidate, and at equal distances it is b's candidate.
C5_TieGoesToB ==
    PassDone =>
        /\ Back(sx.st.it) \in {CandidateA, CandidateB}
        /\ distance(map, Back(BeforePass), Back(sx.st.it)) <= DistA
        /\ distance(map, Back(BeforePass), Back(sx.st.it)) <= DistB
        /\ DistA = DistB => Back(sx.st.it) = CandidateB

\* C5 as stated: ... and when the candidates are different cities at equal
\* distance from the last-added city, a's candidate is the one appended.
C5_TieGoesToA ==
    PassDone =>
        /\ Back(sx.st.it) \in {CandidateA, CandidateB}
        /\ distance(map, Back(BeforePass), Back(sx.st.it)) <= DistA
        /\ distance(map, Back(BeforePass), Back(sx.st.it)) <= DistB
        /\ (DistA = DistB /\ CandidateA # CandidateB) => Back(sx.st.it) = CandidateA

C5_Witness ==
    /\ PassDone
    /\ DistA = DistB
    /\ CandidateA # CandidateB
    /\ Back(sx.st.it) = CandidateB

\* C7: for parents that are permutations of 0..n-1 starting with 0, sex
\* terminates, and the child it returns has n cities, starts with 0 and
\* holds every city exactly once.
C7_ChildIsPermutation ==
    <>[](sx.pc = "done" /\ status = "ok" /\ IsItinerary(tour.it, Len(map)))

C7_Witness ==
    /\ sx.pc = "done"
    /\ IsItinerary(tour.it, Len(map))
    /\ tour.it # sx.a.it
    /\ tour.it # sx.b.it

\* C8: sex(a, a, map) returns a tour equal to a, itinerary and length: what
\* evolve adds when it copies a parent instead of crossing it with itself.
C8_SelfCrossover ==
    (sx.pc = "done" /\ sx.a.it = sx.b.it) => tour = sx.a

C8_Witness ==
    /\ sx.pc = "done"
    /\ sx.a.it = sx.b.it
    /\ Len(map) = 5
    /\ tour = sx.a

\* where the skip-scans of the next pass stop in a and in b
ScanA == SkipUsed(sx.a.it, sx.st.it, sx.st.i)

ScanB == SkipUsed(sx.b.it, sx.st.it, sx.st.j)

PassDue == sx.pc = "loop" /\ Len(sx.st.it) < Len(map)

\* C11: for parents that are permutations of 0..n-1 starting with 0, every
\* read of a[i] and b[j] in sex uses an index below n: whenever a pass of the
\* outer loop is due, both skip-scans stop at an unused city before the end
\* of their parent, so no pass has taken a "parent exhausted" branch.
C11_ScansStopBeforeEnd ==
    /\ status = "ok"
    /\ sx.pc \in {"loop", "done"}
    /\ ~sx.st.oob
    /\ sx.st.branch \notin {"a_exhausted", "b_exhausted"}
    /\ PassDue =>
          /\ ScanA < Len(sx.a.it) /\ At(sx.a.it, ScanA) \notin Range(sx.st.it)
          /\ ScanB < Len(sx.b.it) /\ At(sx.b.it, ScanB) \notin Range(sx.st.it)

\* the last pass is due, both scans have used cities to skip, and both stop
\* at the one unused city before the end of their parent
C11_Witness ==
    /\ PassDue
    /\ Len(map) = 5
    /\ Len(sx.st.it) = Len(map) - 1
    /\ sx.st.i < ScanA /\ ScanA < Len(sx.a.it)
    /\ sx.st.j < ScanB /\ ScanB < Len(sx.b.it)
    /\ ~sx.st.oob

(***************************************************************************)
(* Claims about the Population and the Tour.                               *)
(***************************************************************************)
AllTours == Range(tours) \cup ({tour} \ {NoTour})

\* C1: after every evolve call with 1 <= depth <= n_tours on n >= 3 cities
\* the population holds as many tours as before the call, and its fittest
\* tour is no longer than the fittest tour before the call.
C1_EvolveKeepsSizeAndBest ==
    call.op = "evolve" =>
        /\ status = "ok"
        /\ Len(tours) = call.size
        /\ fittest(tours).len <= call.best

C1_Witness ==
    /\ call.op = "evolve"
    /\ Len(tours) = call.size
    /\ Len(tours) >= 2
    /\ fittest(tours).len < call.best

\* C2: every tour, in the population or alone, is a permutation of 0..n-1
\* that starts with city 0, and no operation has read out of bounds.
C2_ToursArePermutations ==
    /\ status = "ok"
    /\ \A t \in AllTours : IsItinerary(t.it, Len(map))

C2_Witness ==
    /\ call.op = "evolve"
    /\ Len(tours) >= 2
    /\ tours[1].it # tours[2].it
    /\ \A t \in AllTours : IsItinerary(t.it, Len(map))

\* C3: the cached length of every tour is the length of the closed cycle
\* recomputed from its itinerary.
C3_CachedLengthIsCurrent ==
    \A t \in AllTours : t.len = lengthOfItinerary(t.it, map)

C3_Witness ==
    /\ call.op = "mutate"
    /\ call.ret = 2
    /\ tour.len = lengthOfItinerary(tour.it, map)

\* C6: a mutate call with p = 0.0 leaves the itinerary and the cached length
\* as they were and returns -1, whatever rand() returned.
C6_ZeroProbabilityNeverMutates ==
    [][(call'.op = "mutate" /\ call'.p = <<0, 1>>)
            => (tour' = tour /\ call'.ret = -1)]_vars

\* C4: at the equality test of evolve, parent a is the shortest tour among
\* the first depth entries of the first findParent call's order: it is as
\* short as the tour that call returned, whatever the second call shuffled.
C4_ParentAIsFirstWinner ==
    ev.pc = "b" => At(tours, ev.a).len = ev.first.len

\* C9: findParent reached with depth = 0 or depth > n_tours, and a mutation
\* drawn on a tour of fewer than 3 cities (a mutate call that returned no
\* value), end in a reported error.
C9_InvalidArgumentsReported ==
    /\ (call.op = "evolve" /\ call.size > 1 /\ ~call.valid)
            => status = "error"
    /\ (call.op = "mutate" /\ Len(map) < 3 /\ "ret" \notin DOMAIN call)
            => status = "error"

\* C10: Map(w, h, n) with n > w * h ends with a reported error: it is never
\* left drawing cities when every point of the box is already a city.
C10_TooManyCitiesRejected ==
    (mc.pc = "loop" /\ mc.n > mc.w * mc.h /\ Len(mc.cities) = mc.w * mc.h)
        => status = "error"

====
